---- MODULE Spec2Model ----
(***************************************************************************)
(* Model of rye's self-management commands (src/rye/src/cli/rye.rs):       *)
(* `rye self update`, `rye self install`, `rye self uninstall` and the     *)
(* unattended first-run installer.  Every command is one action that runs  *)
(* the whole handler on the file system `fs`; `log` is the ordered list of *)
(* messages printed and collaborators called by that run, `result` what    *)
(* the handler returned, `pre` the file system the run started from.       *)
(***************************************************************************)
EXTENDS Integers, Sequences, FiniteSets, TLC

VARIABLES
    platform,        \* cfg!(unix) / cfg!(windows)
    symlink_shims,   \* platform::symlinks_supported(): shims are symlinks
    RYE_HOME,        \* the RYE_HOME environment variable
    fs,              \* the file system: application directory and outer exe
    pre,             \* fs when the last command started
    cmd,             \* the last command and its arguments
    log,             \* messages and calls of the last command, in order
    result,          \* what the last command returned
    prev             \* the command before the last, if it did its work

vars == <<platform, symlink_shims, RYE_HOME, fs, pre, cmd, log, result, prev>>

\* Number of distinct well-formed executable images.
NumImages == 2

Images == 1..NumImages

\* The bytes of the executable image number v.
Image(v) == [ok |-> TRUE, image |-> v]

\* Bytes that are not a runnable executable (junk download, truncated copy).
Garbage == [ok |-> FALSE, image |-> 0]

NotSet == "<unset>"

DEFAULT_HOME == IF platform = "windows" THEN "%USERPROFILE%\\.rye" ELSE "$HOME/.rye"

ShimNames == {"rye", "python"}

NoFile == [kind |-> "none"]

File(b) == [kind |-> "file", bytes |-> b]

\* A symbolic-link shim: its content is the path of shims/rye.
Symlink == [kind |-> "symlink", target |-> "shims/rye"]

NoEnv == [exists |-> FALSE, text |-> <<>>]

EnvFile(t) == [exists |-> TRUE, text |-> t]

\* The file system before anything was installed.
EmptyFs(exe) ==
    [ appDir |-> FALSE, shimsDir |-> FALSE,
      shims |-> [n \in ShimNames |-> NoFile],
      selfDir |-> FALSE, pyDir |-> FALSE, pipToolsDir |-> FALSE,
      env |-> NoEnv, exe |-> File(Image(exe)) ]

\* Path::is_file() of shims/<n>
IsFile(f, n) == f.appDir /\ f.shimsDir /\ f.shims[n].kind = "file"

\* The places a command can be started from: an executable outside the
\* application directory, or the installed shims/rye.
ExeLocs(f) ==
    (IF f.exe.bytes.ok THEN {"outside"} ELSE {}) \cup
    (IF IsFile(f, "rye") /\ f.shims["rye"].bytes.ok
     THEN {"shims"} ELSE {})

\* The directory entry env::current_exe() names.
ExeEntry(f, loc) == IF loc = "outside" THEN f.exe ELSE f.shims["rye"]

SetExe(f, loc, e) ==
    IF loc = "outside" THEN [f EXCEPT !.exe = e]
    ELSE [f EXCEPT !.shims["rye"] = e]

\* What executing shims/<n> runs: a symlink resolves through shims/rye.
Resolve(f, n) ==
    IF f.shims[n].kind = "symlink" THEN f.shims["rye"] ELSE f.shims[n]

(***************************************************************************)
(* A run of a handler: the file system so far, the log so far, the value   *)
(* returned ("running" until the handler returns) and the temporary file   *)
(* holding the new executable.                                             *)
(***************************************************************************)
Start(f) == [fs |-> f, log |-> <<>>, res |-> "running", tmp |-> NoFile]

Running(r) == r.res = "running"

Echo(r, m) == [r EXCEPT !.log = Append(@, m)]

Return(r, v) == [r EXCEPT !.res = v]

(***************************************************************************)
(* Collaborators of update().                                              *)
(***************************************************************************)

\* What a release URL can serve: the packed image v, or a damaged body.
Payloads ==
    {[intact |-> TRUE, image |-> v] : v \in Images} \cup
    {[intact |-> FALSE, image |-> 0]}

Sha256(bytes) == <<"sha256", bytes>>

\* The body of the .sha256 sidecar: a hex digest, in either case, possibly
\* followed by white space.
SidecarTexts ==
    {[hex |-> Sha256(p), upper |-> u, ws |-> w] :
        p \in Payloads, u \in BOOLEAN, w \in BOOLEAN}

NotFound == [hex |-> <<"404">>, upper |-> FALSE, ws |-> FALSE]

\* str::trim
Trim(text) == [text EXCEPT !.ws = FALSE]

\* utils::check_checksum: the payload's digest equals the given one,
\* compared without regard to case.
check_checksum(bytes, checksum) ==
    [checksum EXCEPT !.upper = FALSE] =
        [hex |-> Sha256(bytes), upper |-> FALSE, ws |-> FALSE]

\* flate2 GzDecoder::read_to_end on unix; the raw body on windows.
DecodeFails(p) == platform = "unix" /\ ~p.intact

Decode(p) == IF p.intact THEN Image(p.image) ELSE Garbage

\* bootstrap::update_core_shims(shims, this): every shim that is a copy is
\* recreated from `this`; symlinks are left alone; an entry that cannot be
\* rewritten (stuck) is skipped.
update_core_shims(f, this, stuck) ==
    [f EXCEPT !.shims =
        [n \in ShimNames |->
            IF f.shims[n].kind = "file" /\ n \notin stuck
            THEN this ELSE f.shims[n]]]

(***************************************************************************)
(* update(): rye.rs lines 139-245.  `in` holds the arguments and what the  *)
(* environment does during the run: in.loc the running executable,         *)
(* in.git whether --rev/--tag was given, in.built the image cargo builds,  *)
(* in.payload and in.sidecar what the two URLs serve, in.fault the one     *)
(* fallible call that fails ("none" when all succeed), in.stuck the shims  *)
(* that cannot be rewritten.                                               *)
(***************************************************************************)
UpdateFaults ==
    {"none", "current_exe", "tempdir", "cargo_spawn", "cargo_status",
     "download", "sidecar", "tempfile", "write_tmp", "canon_app",
     "canon_exe", "self_replace", "update_core_shims", "version"}

\* line 142
update_read_exe(r, in) ==
    IF in.fault = "current_exe" THEN Return(r, "Err")
    ELSE Echo(r, "call:current_exe")

\* lines 145-175: cargo install into a temporary root
update_cargo(r, in) ==
    IF ~Running(r) THEN r
    ELSE IF in.fault = "tempdir" THEN Return(r, "Err")
    ELSE IF in.fault = "cargo_spawn"
         THEN Return(Echo(Echo(r, "call:cargo"),
                          "err:unable to update via cargo-install"), "Err")
    ELSE IF in.fault = "cargo_status"
         THEN Return(Echo(Echo(r, "call:cargo"),
                          "err:failed to self-update via cargo-install"), "Err")
    ELSE [Echo(r, "call:cargo") EXCEPT !.tmp = File(Image(in.built))]

\* lines 183-194
update_download(r, in) ==
    IF ~Running(r) THEN r
    ELSE IF in.fault = "download"
         THEN Return(Echo(Echo(Echo(r, "echo:Updating to"), "call:download_url"),
                          "err:could not download release"), "Err")
    ELSE Echo(Echo(r, "echo:Updating to"), "call:download_url")

\* update_checksum with the result of check_checksum dropped.
update_checksum_unchecked(r, in) ==
    IF ~Running(r) THEN r
    ELSE IF in.fault = "sidecar"
         THEN Return(Echo(r, "call:download_url_ignore_404"), "Err")
    ELSE IF in.sidecar = NotFound
         THEN Echo(Echo(r, "call:download_url_ignore_404"),
                   "echo:Checksum check skipped (no hash available)")
    ELSE Echo(Echo(Echo(r, "call:download_url_ignore_404"),
                   "echo:Checking checksum"), "call:check_checksum")

\* update_checksum fetching the sidecar with download_url: a missing
\* sidecar is an error.
update_checksum_strict(r, in) ==
    IF ~Running(r) THEN r
    ELSE IF in.fault = "sidecar" \/ in.sidecar = NotFound
         THEN Return(Echo(r, "call:download_url"), "Err")
    ELSE IF check_checksum(in.payload, Trim(in.sidecar))
         THEN Echo(Echo(Echo(r, "call:download_url"),
                   "echo:Checking checksum"), "call:check_checksum")
    ELSE Return(Echo(Echo(Echo(Echo(r, "call:download_url"),
                   "echo:Checking checksum"), "call:check_checksum"),
                   "err:hash check failed"), "Err")

\* lines 195-202
update_checksum(r, in) ==
    IF ~Running(r) THEN r
    ELSE IF in.fault = "sidecar"
         THEN Return(Echo(r, "call:download_url_ignore_404"), "Err")
    ELSE IF in.sidecar = NotFound
         THEN Echo(Echo(r, "call:download_url_ignore_404"),
                   "echo:Checksum check skipped (no hash available)")
    ELSE IF check_checksum(in.payload, Trim(in.sidecar))
         THEN Echo(Echo(Echo(r, "call:download_url_ignore_404"),
                   "echo:Checking checksum"), "call:check_checksum")
    ELSE Return(Echo(Echo(Echo(Echo(r, "call:download_url_ignore_404"),
                   "echo:Checking checksum"), "call:check_checksum"),
                   "err:hash check failed"), "Err")

\* lines 204-218
update_unpack(r, in) ==
    IF ~Running(r) THEN r
    ELSE IF in.fault = "tempfile" THEN Return(r, "Err")
    ELSE IF DecodeFails(in.payload) THEN Return(r, "Err")
    ELSE IF in.fault = "write_tmp" THEN Return(r, "Err")
    ELSE [r EXCEPT !.tmp = File(Decode(in.payload))]

\* self_replace::self_replace(new_exe), line 234: the running executable's
\* directory entry is swapped for the new file in one step, or not at all.
self_replace(f, loc, new_exe) == SetExe(f, loc, new_exe)

\* update_exe_and_shims reading the executable's path after self_replace.
update_exe_and_shims_late_exe(r, in) ==
    IF ~Running(r) THEN r
    ELSE IF ~r.fs.appDir \/ in.fault = "canon_app" THEN Return(r, "Err")
    ELSE IF in.fault = "self_replace"
         THEN Return(Echo(r, "call:self_replace"), "Err")
    ELSE LET r1 == Echo(r, "call:self_replace")
             f1 == self_replace(r.fs, in.loc, r.tmp)
         IN  IF in.fault = "canon_exe"
             THEN Return([Echo(r1, "call:current_exe") EXCEPT !.fs = f1], "Err")
             ELSE IF ~f1.shimsDir
             THEN [Echo(r1, "call:current_exe") EXCEPT !.fs = f1]
             ELSE IF in.fault = "update_core_shims"
                  THEN Return([Echo(Echo(r1, "call:current_exe"),
                                    "call:update_core_shims")
                                  EXCEPT !.fs = f1], "Err")
             ELSE [Echo(Echo(r1, "call:current_exe"), "call:update_core_shims")
                      EXCEPT !.fs = update_core_shims(f1, ExeEntry(f1, in.loc),
                                                      in.stuck)]

\* update_exe_and_shims calling self_replace before it resolves the paths.
update_exe_and_shims_replace_first(r, in) ==
    IF ~Running(r) THEN r
    ELSE IF in.fault = "self_replace"
         THEN Return(Echo(r, "call:self_replace"), "Err")
    ELSE LET r1 == Echo(Echo(r, "call:self_replace"), "call:current_exe")
             f1 == self_replace(r.fs, in.loc, r.tmp)
         IN  IF ~f1.appDir \/ in.fault \in {"canon_app", "canon_exe"}
             THEN Return([r1 EXCEPT !.fs = f1], "Err")
             ELSE IF ~f1.shimsDir THEN [r1 EXCEPT !.fs = f1]
             ELSE IF in.fault = "update_core_shims"
                  THEN Return([Echo(r1, "call:update_core_shims")
                                  EXCEPT !.fs = f1], "Err")
             ELSE [Echo(r1, "call:update_core_shims") EXCEPT
                      !.fs = update_core_shims(f1, ExeEntry(f1, in.loc), in.stuck)]

\* lines 229-245
update_exe_and_shims(r, in) ==
    IF ~Running(r) THEN r
    ELSE IF ~r.fs.appDir \/ in.fault = "canon_app" THEN Return(r, "Err")
    ELSE IF in.fault = "canon_exe"
         THEN Return(Echo(r, "call:current_exe"), "Err")
    ELSE IF in.fault = "self_replace"
         THEN Return(Echo(Echo(r, "call:current_exe"), "call:self_replace"), "Err")
    ELSE LET r1 == Echo(Echo(r, "call:current_exe"), "call:self_replace")
             f1 == self_replace(r.fs, in.loc, r.tmp)
         IN  IF ~f1.shimsDir THEN [r1 EXCEPT !.fs = f1]
             ELSE IF in.fault = "update_core_shims"
                  THEN Return([Echo(r1, "call:update_core_shims")
                                  EXCEPT !.fs = f1], "Err")
             ELSE [Echo(r1, "call:update_core_shims") EXCEPT
                      !.fs = update_core_shims(f1, ExeEntry(f1, in.loc), in.stuck)]

\* lines 222-226
update_report(r, in) ==
    IF ~Running(r) THEN r
    ELSE IF in.fault = "version"
         THEN Return(Echo(Echo(r, "echo:Updated!"), "call:--version"), "Err")
    ELSE Return(Echo(Echo(r, "echo:Updated!"), "call:--version"), "Ok")

update(f, in) ==
    LET r0 == update_read_exe(Start(f), in)
    IN  IF in.git
        THEN update_report(update_exe_and_shims(update_cargo(r0, in), in), in)
        ELSE update_report(update_exe_and_shims(
                 update_unpack(update_checksum(update_download(r0, in), in), in),
                 in), in)

(***************************************************************************)
(* uninstall(): rye.rs lines 258-328.  in.yes is --yes, in.answer what the *)
(* confirmation dialog returns, in.locked the shims whose remove_file      *)
(* fails, in.fault the one fallible call that fails.                       *)
(***************************************************************************)
UninstallFaults ==
    {"none", "current_exe", "canon_app", "rm_self", "rm_py", "rm_pip_tools",
     "self_delete", "rm_shims", "write_env"}

\* lines 266-272
uninstall_confirm(r, in) ==
    IF in.yes THEN r
    ELSE IF in.answer = "error"
         THEN Return(Echo(r, "prompt:Do you want to uninstall rye?"), "Err")
    ELSE IF in.answer = "no"
         THEN Return(Echo(r, "prompt:Do you want to uninstall rye?"), "Ok")
    ELSE Echo(r, "prompt:Do you want to uninstall rye?")

\* lines 276-277
uninstall_resolve(r, in) ==
    IF ~Running(r) THEN r
    ELSE IF in.fault = "current_exe" \/ in.fault = "canon_app"
         THEN Return(r, "Err")
    ELSE Echo(r, "call:current_exe")

\* lines 281-286: remove_file(..).ok() on every entry of shims/; a running
\* executable cannot be deleted on windows.
uninstall_shim_files(r, in) ==
    IF ~Running(r) \/ ~r.fs.shimsDir THEN r
    ELSE LET locked == in.locked \cup
                 (IF platform = "windows" /\ in.loc = "shims"
                  THEN {"rye"} ELSE {})
         IN  [r EXCEPT !.fs.shims =
                 [n \in ShimNames |->
                     IF n \in locked THEN r.fs.shims[n] ELSE NoFile]]

\* uninstall_runtime_dirs without the removal of pip-tools/.
uninstall_runtime_dirs_keeps_pip_tools(r, in) ==
    IF ~Running(r) THEN r
    ELSE IF r.fs.selfDir /\ in.fault = "rm_self" THEN Return(r, "Err")
    ELSE IF r.fs.pyDir /\ in.fault = "rm_py"
         THEN Return([r EXCEPT !.fs.selfDir = FALSE], "Err")
    ELSE [r EXCEPT !.fs.selfDir = FALSE, !.fs.pyDir = FALSE]

\* lines 258-263 applied at lines 288-290
uninstall_runtime_dirs(r, in) ==
    IF ~Running(r) THEN r
    ELSE IF r.fs.selfDir /\ in.fault = "rm_self" THEN Return(r, "Err")
    ELSE IF r.fs.pyDir /\ in.fault = "rm_py"
         THEN Return([r EXCEPT !.fs.selfDir = FALSE], "Err")
    ELSE IF r.fs.pipToolsDir /\ in.fault = "rm_pip_tools"
         THEN Return([r EXCEPT !.fs.selfDir = FALSE, !.fs.pyDir = FALSE], "Err")
    ELSE [r EXCEPT !.fs.selfDir = FALSE, !.fs.pyDir = FALSE,
                   !.fs.pipToolsDir = FALSE]

\* lines 295-297
uninstall_self_delete(r, in) ==
    IF ~Running(r) THEN r
    ELSE IF in.loc = "shims" /\ r.fs.shims["rye"].kind = "file"
         THEN IF in.fault = "self_delete"
              THEN Return(Echo(r, "call:self_delete_outside_path"), "Err")
              ELSE [Echo(r, "call:self_delete_outside_path")
                       EXCEPT !.fs.shims["rye"] = NoFile]
    ELSE r

\* line 300
uninstall_shims_dir(r, in) ==
    IF ~Running(r) \/ ~r.fs.shimsDir THEN r
    ELSE IF in.fault = "rm_shims" THEN Return(r, "Err")
    ELSE [r EXCEPT !.fs.shimsDir = FALSE,
                   !.fs.shims = [n \in ShimNames |-> NoFile]]

\* uninstall_env deleting the env file instead of emptying it.
uninstall_env_deletes(r, in) ==
    IF ~Running(r) \/ ~r.fs.env.exists THEN r
    ELSE IF in.fault = "write_env" THEN Return(r, "Err")
    ELSE [r EXCEPT !.fs.env = NoEnv]

\* lines 303-306
uninstall_env(r, in) ==
    IF ~Running(r) \/ ~r.fs.env.exists THEN r
    ELSE IF in.fault = "write_env" THEN Return(r, "Err")
    ELSE [r EXCEPT !.fs.env = EnvFile(<<>>)]

\* uninstall_report without the advice.
uninstall_report_no_advice(r, in) ==
    IF ~Running(r) THEN r
    ELSE Return(Echo(r, "echo:Done!"), "Ok")

\* lines 309-327
uninstall_report(r, in) ==
    IF ~Running(r) THEN r
    ELSE Return(Echo(Echo(r, "echo:Done!"),
             IF platform = "unix"
             THEN "echo:Don't forget to remove the sourcing of env"
             ELSE "echo:Don't forget to remove shims from your PATH"), "Ok")

uninstall(f, in) ==
    LET r0 == uninstall_confirm(Start(f), in)
    IN  IF Running(r0) /\ f.appDir
        THEN uninstall_report(uninstall_env(uninstall_shims_dir(
                 uninstall_self_delete(uninstall_runtime_dirs(
                 uninstall_shim_files(uninstall_resolve(r0, in), in), in),
                 in), in), in), in)
        ELSE uninstall_report(r0, in)

(***************************************************************************)
(* perform_install(): rye.rs lines 336-475.  in.mode and in.toolchain are  *)
(* the arguments, in.answer what the dialog returns, in.mkdir whether      *)
(* create_dir_all succeeds, in.path the PATH variable, in.fish the shell,  *)
(* in.fault the one fallible call that fails.                              *)
(***************************************************************************)
InstallModes == {"Default", "NoPrompts", "AutoInstall"}

\* The toolchain found at a path: its interpreter name and whether
\* bootstrap::is_self_compatible_toolchain accepts its version.
Toolchains ==
    {[name |-> "cpython", compatible |-> TRUE],
     [name |-> "cpython", compatible |-> FALSE],
     [name |-> "pypy", compatible |-> TRUE]}

\* toolchain_path = None
NoToolchain == [name |-> "-", compatible |-> FALSE]

InstallFaults ==
    {"none", "current_exe", "rm_target", "copy", "copy_partial", "write_env",
     "register_toolchain", "ensure_self_venv"}

\* render!(UNIX_ENV_FILE, custom_home, rye_home), lines 30-43
Render(custom_home, rye_home) ==
    <<  <<"# rye shell setup", "">> >> \o
    (IF custom_home THEN << <<"export RYE_HOME=", rye_home>> >> ELSE <<>>) \o
    <<  <<"case :${PATH}: in *:/shims:*", rye_home>>,
        <<"*) export PATH=/shims:$PATH", rye_home>> >>

\* lines 337-378
install_greeting(r, in) ==
    IF in.fault = "current_exe" THEN Return(r, "Err")
    ELSE LET r1 == Echo(Echo(r, "call:current_exe"), "echo:Welcome to Rye!")
             r2 == IF in.mode = "AutoInstall"
                   THEN Echo(r1, "echo:Rye has detected that it's not installed")
                   ELSE r1
             r3 == Echo(r2, "echo:This installer will install rye")
         IN  IF platform = "windows" /\ ~symlink_shims
             THEN Echo(r3, "warn:your Windows configuration does not support symlinks")
             ELSE r3

\* install_confirm going on after the dialog was declined.
install_confirm_ignored(r, in) ==
    IF ~Running(r) THEN r
    ELSE IF in.mode = "NoPrompts" THEN r
    ELSE IF in.answer = "error" THEN Return(Echo(r, "prompt:Continue?"), "Err")
    ELSE IF in.answer = "no"
         THEN Echo(Echo(r, "prompt:Continue?"), "elog:Installation cancelled!")
    ELSE Echo(r, "prompt:Continue?")

\* install_confirm skipping the dialog in AutoInstall mode as well.
install_confirm_auto_skips(r, in) ==
    IF ~Running(r) THEN r
    ELSE IF in.mode \in {"NoPrompts", "AutoInstall"} THEN r
    ELSE IF in.answer = "error" THEN Return(Echo(r, "prompt:Continue?"), "Err")
    ELSE IF in.answer = "no"
         THEN Return(Echo(Echo(r, "prompt:Continue?"),
                          "elog:Installation cancelled!"), "QuietExit(1)")
    ELSE Echo(r, "prompt:Continue?")

\* lines 381-388
install_confirm(r, in) ==
    IF ~Running(r) THEN r
    ELSE IF in.mode = "NoPrompts" THEN r
    ELSE IF in.answer = "error" THEN Return(Echo(r, "prompt:Continue?"), "Err")
    ELSE IF in.answer = "no"
         THEN Return(Echo(Echo(r, "prompt:Continue?"),
                          "elog:Installation cancelled!"), "QuietExit(1)")
    ELSE Echo(r, "prompt:Continue?")

\* lines 391-396
install_place_binary(r, in) ==
    IF ~Running(r) THEN r
    ELSE LET f1 == IF in.mkdir
                   THEN [r.fs EXCEPT !.appDir = TRUE, !.shimsDir = TRUE]
                   ELSE r.fs
             r1 == [Echo(r, "call:create_dir_all") EXCEPT !.fs = f1]
             f2 == [f1 EXCEPT !.shims["rye"] = NoFile]
             src == ExeEntry(f2, in.loc)
         IN  IF IsFile(f1, "rye") /\
                  (in.fault = "rm_target" \/
                   (platform = "windows" /\ in.loc = "shims"))
             THEN Return(r1, "Err")
             ELSE IF ~(f2.appDir /\ f2.shimsDir) \/ src.kind # "file"
                       \/ in.fault = "copy"
             THEN Return([r1 EXCEPT !.fs = f2], "Err")
             ELSE IF in.fault = "copy_partial"
             THEN Return([r1 EXCEPT !.fs = [f2 EXCEPT !.shims["rye"] =
                                               File(Garbage)]], "Err")
             ELSE Echo([r1 EXCEPT !.fs.shims["rye"] = File(src.bytes)],
                       "echo:Installed binary")

\* lines 400-409
install_write_env(r, in) ==
    IF ~Running(r) \/ platform # "unix" THEN r
    ELSE IF in.fault = "write_env" THEN Return(Echo(r, "call:write_env"), "Err")
    ELSE [Echo(r, "call:write_env") EXCEPT !.fs.env =
             EnvFile(IF RYE_HOME = NotSet THEN Render(FALSE, DEFAULT_HOME)
                     ELSE Render(TRUE, RYE_HOME))]

\* validate without the version test.
validate_any_cpython(ver) == ver.name = "cpython"

\* the closure passed to register_toolchain, lines 417-427
validate(ver) == ver.name = "cpython" /\ ver.compatible

\* lines 412-429
install_register_toolchain(r, in) ==
    IF ~Running(r) \/ in.toolchain = NoToolchain THEN r
    ELSE IF in.fault = "register_toolchain" \/ ~validate(in.toolchain)
         THEN Return(Echo(r, "echo:Registering toolchain"), "Err")
    ELSE Echo([Echo(r, "echo:Registering toolchain") EXCEPT !.fs.pyDir = TRUE],
              "echo:Registered toolchain")

\* bootstrap::ensure_self_venv: creates the internal environment and the
\* core shims if the environment does not exist yet.
ensure_self_venv(f) ==
    IF f.selfDir THEN f
    ELSE [f EXCEPT !.selfDir = TRUE,
                   !.shims["python"] =
                       IF symlink_shims THEN Symlink ELSE f.shims["rye"]]

\* lines 432-436
install_bootstrap(r, in) ==
    IF ~Running(r) THEN r
    ELSE IF in.fault = "ensure_self_venv"
         THEN Return(Echo(r, "call:ensure_self_venv"), "Err")
    ELSE Echo([Echo(r, "call:ensure_self_venv") EXCEPT
                  !.fs = ensure_self_venv(r.fs)],
              "echo:Updated self-python installation")

\* lines 438-467
install_path_advice(r, in) ==
    IF ~Running(r) THEN r
    ELSE IF platform = "windows"
         THEN Echo(r, "echo:Note: You need to manually add to your PATH")
    ELSE IF in.path = "unset" THEN Return(r, "Panic")
    ELSE IF in.path = "with_shims" THEN r
    ELSE IF in.fish
         THEN Echo(Echo(r, "echo:The rye directory was not detected on PATH"),
                   "echo:To make it work with fish")
    ELSE Echo(r, "echo:The rye directory was not detected on PATH")

\* lines 469-474
install_done(r, in) ==
    IF ~Running(r) THEN r
    ELSE Return(Echo(Echo(r, "echo:For more information read"),
                     "echo:All done!"), "Ok")

\* perform_install bootstrapping the runtime before it registers the
\* toolchain.
perform_install_bootstrap_first(f, in) ==
    install_done(install_path_advice(install_register_toolchain(
        install_bootstrap(install_write_env(install_place_binary(
        install_confirm(install_greeting(Start(f), in), in), in), in), in),
        in), in), in)

\* lines 336-475
perform_install(f, in) ==
    install_done(install_path_advice(install_bootstrap(
        install_register_toolchain(install_write_env(install_place_binary(
        install_confirm(install_greeting(Start(f), in), in), in), in), in),
        in), in), in)

(***************************************************************************)
(* auto_self_install(): rye.rs lines 477-510.  in.no_auto is               *)
(* RYE_NO_AUTO_INSTALL = "1"; in.toolchain is RYE_TOOLCHAIN.               *)
(***************************************************************************)
\* auto_self_install without the test of RYE_NO_AUTO_INSTALL.
auto_self_install_ignores_flag(f, in) ==
    IF f.appDir /\ IsFile(f, "rye") THEN Return(Start(f), "Ok(false)")
    ELSE LET r == perform_install(f, [in EXCEPT !.mode = "AutoInstall"])
         IN  IF r.res = "Ok" THEN Return(r, "Ok(true)") ELSE r

\* lines 477-510
auto_self_install(f, in) ==
    IF in.no_auto THEN Return(Start(f), "Ok(false)")
    ELSE IF f.appDir /\ IsFile(f, "rye") THEN Return(Start(f), "Ok(false)")
    ELSE LET r == perform_install(f, [in EXCEPT !.mode = "AutoInstall"])
         IN  IF r.res = "Ok" THEN Return(r, "Ok(true)") ELSE r

(***************************************************************************)
(* The state machine: each action is one invocation of a command.          *)
(***************************************************************************)
NoInput ==
    [op |-> "none", loc |-> "outside", fault |-> "none",
     git |-> FALSE, built |-> 1, payload |-> [intact |-> FALSE, image |-> 0],
     sidecar |-> NotFound, stuck |-> {},
     yes |-> FALSE, answer |-> "yes", locked |-> {},
     mode |-> "Default", toolchain |-> NoToolchain, mkdir |-> TRUE,
     path |-> "with_shims", fish |-> FALSE, no_auto |-> FALSE]

Answers == {"yes", "no", "error"}

PathVars == {"unset", "with_shims", "without_shims"}

\* The inputs of update().  A field the run cannot read (everything after
\* the failing call, the sidecar after a failed download, ...) keeps the
\* value it has in NoInput; a failing call after the checksum step is
\* combined with the missing sidecar only, since the steps after it do not
\* read the sidecar.
UpdateInputs ==
    {[NoInput EXCEPT !.op = "update", !.git = TRUE, !.built = b,
                     !.fault = x, !.stuck = s] :
        <<b, x, s>> \in
          {t \in Images \X
                 {"none", "current_exe", "tempdir", "cargo_spawn",
                  "cargo_status", "canon_app", "canon_exe", "self_replace",
                  "update_core_shims", "version"} \X (SUBSET ShimNames) :
             /\ t[2] # "none" => t[3] = {}
             /\ t[2] \notin {"none", "version", "update_core_shims"}
                   => t[1] = 1}}
    \cup
    {[NoInput EXCEPT !.op = "update", !.payload = p, !.sidecar = c,
                     !.fault = x, !.stuck = s] :
        <<p, c, x, s>> \in
          {t \in Payloads \X (SidecarTexts \cup {NotFound}) \X
                 (UpdateFaults \ {"tempdir", "cargo_spawn", "cargo_status"})
                 \X (SUBSET ShimNames) :
             /\ t[3] # "none" => t[4] = {}
             /\ t[2] # NotFound => t[3] = "none"
             /\ t[3] \in {"current_exe", "download"}
                   => t[1] = NoInput.payload /\ t[2] = NotFound
             /\ t[3] = "sidecar" => t[2] = NotFound
             /\ (t[2].upper \/ t[2].ws) => t[4] = {}}}

UninstallInputs ==
    {[NoInput EXCEPT !.op = "uninstall", !.yes = y, !.answer = a,
                     !.locked = l, !.fault = x] :
        <<y, a, l, x>> \in
          {t \in BOOLEAN \X Answers \X (SUBSET ShimNames) \X UninstallFaults :
             /\ t[1] => t[2] = "yes"
             /\ t[2] # "yes" => t[3] = {} /\ t[4] = "none"
             /\ t[4] \in {"current_exe", "canon_app"} => t[3] = {}}}

\* The inputs of perform_install() after its mode and the dialog's answer.
InstallRest ==
    {t \in (Toolchains \cup {NoToolchain}) \X BOOLEAN \X PathVars \X BOOLEAN
            \X InstallFaults :
       /\ t[3] # "without_shims" => ~t[4]
       /\ t[5] # "none" => t[3] = "with_shims"
       /\ t[5] \in {"current_exe", "rm_target", "copy", "copy_partial",
                     "write_env"} => t[1] = NoToolchain
       /\ (t[1] # NoToolchain /\ ~validate(t[1]))
             => t[3] = "with_shims" /\ t[5] = "none"
       /\ t[5] = "current_exe" => t[2]}

InstallInputs ==
    {[NoInput EXCEPT !.op = "install", !.mode = m, !.answer = a,
                     !.toolchain = t[1], !.mkdir = t[2], !.path = t[3],
                     !.fish = t[4], !.fault = t[5]] :
        <<m, a, t>> \in
          {u \in {"Default", "NoPrompts"} \X Answers \X InstallRest :
             /\ u[1] = "NoPrompts" => u[2] = "yes"
             /\ u[2] # "yes" =>
                   u[3] \in {<<NoToolchain, TRUE, "with_shims", FALSE, x>> :
                               x \in {"none", "current_exe"}}}}

AutoInstallInputs ==
    {[NoInput EXCEPT !.op = "auto_self_install", !.mode = "AutoInstall",
                     !.no_auto = n, !.answer = a,
                     !.toolchain = t[1], !.mkdir = t[2], !.path = t[3],
                     !.fish = t[4], !.fault = t[5]] :
        <<n, a, t>> \in
          {u \in BOOLEAN \X Answers \X InstallRest :
             /\ u[1] => u[2] = "yes" /\
                   u[3] = <<NoToolchain, TRUE, "with_shims", FALSE, "none">>
             /\ u[2] # "yes" =>
                   u[3] \in {<<NoToolchain, TRUE, "with_shims", FALSE, x>> :
                               x \in {"none", "current_exe"}}}}

\* What is remembered of a finished command: an install that succeeded or
\* an uninstall that was confirmed and succeeded, with its arguments and
\* environment; nothing of any other command.
Summary(c, res) ==
    IF res = "Ok" /\ c.op = "install"
    THEN [op |-> "install", mode |-> c.mode, toolchain |-> c.toolchain,
          path |-> c.path]
    ELSE IF res = "Ok" /\ c.op = "uninstall" /\ (c.yes \/ c.answer = "yes")
    THEN [op |-> "uninstall", mode |-> NoInput.mode,
          toolchain |-> NoInput.toolchain, path |-> NoInput.path]
    ELSE [op |-> "none", mode |-> NoInput.mode,
          toolchain |-> NoInput.toolchain, path |-> NoInput.path]

Init ==
    /\ platform \in {"unix", "windows"}
    /\ symlink_shims \in BOOLEAN
    /\ RYE_HOME \in IF platform = "unix" THEN {NotSet, "/opt/rye"} ELSE {NotSet}
    /\ fs = EmptyFs(1)
    /\ pre = fs
    /\ cmd = NoInput
    /\ log = <<>>
    /\ result = "none"
    /\ prev = Summary(NoInput, "none")

\* One command ran: r is its run from fs with inputs in.  A command starts
\* (cmd.op = "none") when the process of the one before it has exited.
Ran(in, r) ==
    /\ fs' = r.fs
    /\ pre' = fs
    /\ cmd' = in
    /\ log' = r.log
    /\ result' = r.res
    /\ UNCHANGED <<platform, symlink_shims, RYE_HOME, prev>>

\* The shims that exist, and those that are regular files.
Present(f) == {n \in ShimNames : f.shimsDir /\ f.shims[n].kind # "none"}

FileShims(f) == {n \in ShimNames : f.shimsDir /\ f.shims[n].kind = "file"}

\* Only a shim that is rewritten can fail to be rewritten.
Update ==
    /\ cmd.op = "none"
    /\ \E in \in {x \in UpdateInputs : x.stuck \subseteq FileShims(fs)},
          loc \in ExeLocs(fs) :
           LET i == [in EXCEPT !.loc = loc]
               r == update(fs, i)
           IN  Ran(i, r)

\* Only the removal of something that exists can fail.
Uninstall ==
    /\ cmd.op = "none"
    /\ \E in \in {x \in UninstallInputs :
                       /\ x.locked \subseteq Present(fs)
                       /\ ~fs.appDir => x.fault = "none"},
          loc \in ExeLocs(fs) :
           LET i == [in EXCEPT !.loc = loc]
               r == uninstall(fs, i)
           IN  Ran(i, r)

\* create_dir_all can only fail when the directory is not there yet.
Install ==
    /\ cmd.op = "none"
    /\ \E in \in {x \in InstallInputs : ~x.mkdir => ~(fs.appDir /\ fs.shimsDir)},
          loc \in ExeLocs(fs) :
           LET i == [in EXCEPT !.loc = loc]
               r == perform_install(fs, i)
           IN  Ran(i, r)

AutoSelfInstall ==
    /\ cmd.op = "none"
    /\ \E in \in {x \in AutoInstallInputs :
                       ~x.mkdir => ~(fs.appDir /\ fs.shimsDir)},
          loc \in ExeLocs(fs) :
           LET i == [in EXCEPT !.loc = loc]
               r == auto_self_install(fs, i)
           IN  Ran(i, r)

\* Other commands of the installed tool fill py/ and pip-tools/.
RunTool ==
    /\ cmd.op = "none"
    /\ IsFile(fs, "rye") /\ fs.selfDir
    /\ \E d \in {"py", "pip-tools"} :
          Ran([NoInput EXCEPT !.op = "other", !.loc = "shims"],
              [Start(fs) EXCEPT
                  !.fs.pyDir = (@ \/ d = "py"),
                  !.fs.pipToolsDir = (@ \/ d = "pip-tools"),
                  !.res = "Ok"])

\* The process of the last command exits and its output is gone.
Exit ==
    /\ cmd.op # "none"
    /\ pre' = fs
    /\ cmd' = NoInput
    /\ log' = <<>>
    /\ result' = "none"
    /\ prev' = Summary(cmd, result)
    /\ UNCHANGED <<platform, symlink_shims, RYE_HOME, fs>>

Next == Update \/ Uninstall \/ Install \/ AutoSelfInstall \/ RunTool \/ Exit

Spec == Init /\ [][Next]_vars

(***************************************************************************)
(* Properties.                                                             *)
(***************************************************************************)
InLog(m) == \E i \in 1..Len(log) : log[i] = m

\* The last command was a release download whose sidecar was obtained and
\* does not match the payload.
ChecksumMismatch ==
    /\ cmd.op = "update" /\ ~cmd.git
    /\ cmd.fault \notin {"current_exe", "download", "sidecar"}
    /\ cmd.sidecar # NotFound
    /\ ~check_checksum(cmd.payload, Trim(cmd.sidecar))

\* The running executable and the shims are as they were before the command.
BinariesUntouched ==
    /\ ExeEntry(fs, cmd.loc) = ExeEntry(pre, cmd.loc)
    /\ fs.exe = pre.exe
    /\ fs.shims = pre.shims

\* C1: when the sidecar checksum is obtained and does not match the
\* payload, update() returns an error, self_replace is never invoked and
\* the running executable and every shim are unchanged.
C1_MismatchNeverReplaces ==
    ChecksumMismatch =>
        /\ result = "Err"
        /\ ~InLog("call:self_replace")
        /\ BinariesUntouched

C1_Witness ==
    /\ ChecksumMismatch
    /\ InLog("call:check_checksum")
    /\ IsFile(pre, "python")
    /\ cmd.payload.intact

\* The last command was a release download whose payload arrived and whose
\* sidecar request answered "not found".
SidecarMissing ==
    /\ cmd.op = "update" /\ ~cmd.git
    /\ cmd.fault \notin {"current_exe", "download", "sidecar"}
    /\ cmd.sidecar = NotFound

\* C2: when the sidecar is not found the update goes on unverified: the
\* 'checksum check skipped' message is printed and, unless a later step
\* fails, self_replace is invoked and the running executable is replaced
\* by the decoded payload.
C2_Missing404Proceeds ==
    SidecarMissing =>
        /\ InLog("echo:Checksum check skipped (no hash available)")
        /\ ~InLog("call:check_checksum")
        /\ (cmd.fault = "none" /\ ~DecodeFails(cmd.payload) /\ pre.appDir) =>
              /\ InLog("call:self_replace")
              /\ ExeEntry(fs, cmd.loc) = File(Decode(cmd.payload))
              /\ result = "Ok"

C2_Witness ==
    /\ SidecarMissing
    /\ cmd.fault = "none" /\ pre.appDir
    /\ cmd.payload.intact
    /\ InLog("call:self_replace")
    /\ ExeEntry(fs, cmd.loc) # ExeEntry(pre, cmd.loc)

\* The failures of update() that come before the call of self_replace.
FailsBeforeReplace ==
    /\ cmd.op = "update"
    /\ \/ cmd.fault \in {"current_exe", "tempdir", "cargo_spawn",
                          "cargo_status", "download", "sidecar", "tempfile",
                          "write_tmp", "canon_app", "canon_exe"}
       \/ ~cmd.git /\ DecodeFails(cmd.payload)
       \/ ~pre.appDir

\* C3: a failure of update() before self_replace is invoked makes it return
\* an error with the running executable and all shims unchanged.
C3_EarlyFailureLeavesBinary ==
    FailsBeforeReplace =>
        /\ result = "Err"
        /\ ~InLog("call:self_replace")
        /\ BinariesUntouched

C3_Witness ==
    /\ FailsBeforeReplace
    /\ cmd.fault = "canon_exe" /\ pre.appDir
    /\ IsFile(pre, "python")
    /\ result = "Err"

\* The last command was an update() that returned success.
UpdateSucceeded == cmd.op = "update" /\ result = "Ok"

\* C4: after an update() that returns success every shim that is a copy
\* has the content of the new primary binary, and every symbolic-link shim
\* is unmodified and still resolves to that binary.
C4_ShimsMatchAfterUpdate ==
    UpdateSucceeded =>
        \A n \in ShimNames :
            /\ fs.shims[n].kind = "file" => fs.shims[n] = ExeEntry(fs, cmd.loc)
            /\ pre.shims[n].kind = "symlink" =>
                  /\ fs.shims[n] = pre.shims[n]
                  /\ Resolve(pre, n).kind = "file" =>
                        Resolve(fs, n) = ExeEntry(fs, cmd.loc)

\* The confirmation of the last uninstall() was declined.
UninstallDeclined == cmd.op = "uninstall" /\ ~cmd.yes /\ cmd.answer = "no"

\* C5: an uninstall() whose confirmation is declined removes and modifies
\* nothing and returns the quiet-cancel signal QuietExit(1).
C5_DeclinedUninstallQuietExit ==
    UninstallDeclined => fs = pre /\ result = "QuietExit(1)"

\* The last command ran perform_install(), directly or from
\* auto_self_install(), and got past reading the executable's path.
InstallRan ==
    /\ cmd.op \in {"install", "auto_self_install"}
    /\ InLog("echo:This installer will install rye")

InstallDeclined == InstallRan /\ InLog("prompt:Continue?") /\ cmd.answer = "no"

\* C6: when 'Continue?' is declined perform_install ends with QuietExit(1)
\* and enters no later step: nothing is created, removed or written, no
\* toolchain is registered and the runtime is not bootstrapped.
C6_DeclinedInstallStops ==
    InstallDeclined =>
        /\ result = "QuietExit(1)"
        /\ fs = pre
        /\ \A m \in {"call:create_dir_all", "echo:Installed binary",
                      "call:write_env", "echo:Registering toolchain",
                      "call:ensure_self_venv", "echo:All done!"} : ~InLog(m)

C6_Witness ==
    /\ InstallDeclined
    /\ cmd.mode = "Default"
    /\ IsFile(pre, "rye") /\ pre.selfDir

\* C7: the confirmation is bypassed in NoPrompts mode and in AutoInstall
\* mode; only Default mode prompts.
C7_OnlyDefaultPrompts ==
    InstallRan => (InLog("prompt:Continue?") <=> cmd.mode = "Default")

\* C7 as amended: the confirmation is bypassed in NoPrompts mode only;
\* Default mode and AutoInstall mode both prompt.
C7_OnlyNoPromptsSkips ==
    InstallRan => (InLog("prompt:Continue?") <=> cmd.mode # "NoPrompts")

C7_Witness ==
    /\ InstallRan
    /\ cmd.op = "auto_self_install" /\ cmd.mode = "AutoInstall"
    /\ InLog("prompt:Continue?")
    /\ result = "Ok(true)"

\* The last two commands were perform_install() with the same mode,
\* toolchain path and environment, answered alike, and the first succeeded.
InstalledTwice ==
    /\ prev.op = "install" /\ cmd.op = "install"
    /\ cmd.mode = prev.mode /\ cmd.toolchain = prev.toolchain
    /\ cmd.path = prev.path
    /\ cmd.answer = "yes" /\ cmd.fault = "none"

\* C8: install is idempotent: a second perform_install() with identical
\* inputs succeeds and leaves the directory structure of the first, with
\* shims/rye holding the bytes of the installing executable, wherever the
\* second run is started from.
C8_InstallIdempotent ==
    InstalledTwice =>
        /\ result = "Ok"
        /\ fs = pre
        /\ IsFile(fs, "rye")
        /\ fs.shims["rye"] = ExeEntry(pre, cmd.loc)

\* The part of the application directory the installer manages.
Layout(f) ==
    [appDir |-> f.appDir, shimsDir |-> f.shimsDir, shims |-> f.shims,
     env |-> f.env, selfDir |-> f.selfDir, pyDir |-> f.pyDir,
     pipToolsDir |-> f.pipToolsDir]

\* The last command was a successful install, run from outside the
\* application directory, right after a successful uninstall.
ReinstalledAfterUninstall ==
    /\ prev.op = "uninstall"
    /\ cmd.op = "install" /\ cmd.loc = "outside" /\ result = "Ok"

\* C9: a successful uninstall followed by a successful install from an
\* executable outside the application directory leaves the layout that the
\* same install leaves in a fresh, non-existent application directory.
C9_ReinstallLikeFresh ==
    ReinstalledAfterUninstall =>
        LET fresh == perform_install([EmptyFs(1) EXCEPT !.exe = pre.exe], cmd)
        IN  fresh.res = "Ok" /\ Layout(fs) = Layout(fresh.fs)

C9_Witness ==
    /\ ReinstalledAfterUninstall
    /\ pre.appDir /\ pre.env = EnvFile(<<>>)
    /\ cmd.toolchain # NoToolchain
    /\ IsFile(fs, "python")

\* The lines uninstall() prints last.
AdvicePrinted ==
    IF platform = "unix"
    THEN InLog("echo:Don't forget to remove the sourcing of env")
    ELSE InLog("echo:Don't forget to remove shims from your PATH")

BootstrapSucceeded ==
    InstallRan /\ InLog("echo:Updated self-python installation")

\* C11: once BootstrapRuntime has succeeded perform_install() returns
\* success in every environment, an unset PATH variable included: the
\* path advice never fails the flow and 'All done!' is printed.
C11_PathAdviceNeverFails ==
    BootstrapSucceeded =>
        /\ result \in {"Ok", "Ok(true)"}
        /\ InLog("echo:All done!")

\* The last command was a confirmed uninstall() of an existing application
\* directory in which the removal of one runtime directory failed.
RuntimeDirRemovalFails ==
    /\ cmd.op = "uninstall" /\ (cmd.yes \/ cmd.answer = "yes")
    /\ pre.appDir
    /\ \/ cmd.fault = "rm_self" /\ pre.selfDir
       \/ cmd.fault = "rm_py" /\ pre.pyDir
       \/ cmd.fault = "rm_pip_tools" /\ pre.pipToolsDir

\* C12: the removal of self/, py/ and pip-tools/ is best-effort: an error
\* while removing one of them is swallowed and the remaining steps (the
\* other removals, the shims directory removal, the env truncation) still
\* run and uninstall() succeeds.
C12_RuntimeDirRemovalBestEffort ==
    RuntimeDirRemovalFails =>
        /\ result = "Ok"
        /\ \A d \in {"rm_self", "rm_py", "rm_pip_tools"} \ {cmd.fault} :
              /\ d = "rm_self" => ~fs.selfDir
              /\ d = "rm_py" => ~fs.pyDir
              /\ d = "rm_pip_tools" => ~fs.pipToolsDir
        /\ ~fs.shimsDir
        /\ pre.env.exists => fs.env = EnvFile(<<>>)

\* auto_self_install() has nothing to do: RYE_NO_AUTO_INSTALL is "1", or
\* the application directory exists and shims/rye is a file.
AutoSkips == cmd.no_auto \/ (pre.appDir /\ IsFile(pre, "rye"))

\* C13: auto_self_install() installs nothing and returns false when
\* RYE_NO_AUTO_INSTALL is "1" or shims/rye is a file of an existing
\* application directory; otherwise it runs perform_install() in
\* AutoInstall mode with the toolchain of RYE_TOOLCHAIN, if set, and
\* returns true only if that install succeeded.
C13_AutoSelfInstall ==
    cmd.op = "auto_self_install" =>
        IF AutoSkips
        THEN result = "Ok(false)" /\ fs = pre /\ log = <<>>
        ELSE /\ result # "Ok(false)"
             /\ cmd.fault # "current_exe" =>
                   InLog("echo:Rye has detected that it's not installed")
             /\ InLog("echo:Registering toolchain") =>
                   cmd.toolchain # NoToolchain
             /\ (InLog("call:ensure_self_venv") /\ cmd.toolchain # NoToolchain)
                   => InLog("echo:Registered toolchain")
             /\ result = "Ok(true)" <=> InLog("echo:All done!")
             /\ result = "Ok(true)" => IsFile(fs, "rye") /\ fs.selfDir

C13_Witness ==
    /\ cmd.op = "auto_self_install" /\ ~AutoSkips
    /\ pre.appDir /\ ~pre.shimsDir
    /\ cmd.toolchain # NoToolchain
    /\ InLog("echo:Registered toolchain")
    /\ result = "Ok(true)"

\* The log entries that mark the start or the success of a step of
\* perform_install().
StepMarks ==
    {"echo:Welcome to Rye!", "prompt:Continue?", "call:create_dir_all",
     "echo:Installed binary", "call:write_env", "echo:Registering toolchain",
     "echo:Registered toolchain", "call:ensure_self_venv",
     "echo:Updated self-python installation",
     "echo:Note: You need to manually add to your PATH",
     "echo:The rye directory was not detected on PATH",
     "echo:For more information read", "echo:All done!"}

IsStepMark(m) == m \in StepMarks

Steps(l) == SelectSeq(l, IsStepMark)

\* The marks of a complete run of the last command, in the order Greeting,
\* ConfirmOrSkip, PlaceBinary, WriteEnvFile, RegisterToolchain,
\* BootstrapRuntime, ReportPathAdvice, Done.
ExpectedSteps ==
    <<"echo:Welcome to Rye!">> \o
    (IF cmd.mode # "NoPrompts" THEN <<"prompt:Continue?">> ELSE <<>>) \o
    <<"call:create_dir_all", "echo:Installed binary">> \o
    (IF platform = "unix" THEN <<"call:write_env">> ELSE <<>>) \o
    (IF cmd.toolchain # NoToolchain
     THEN <<"echo:Registering toolchain", "echo:Registered toolchain">>
     ELSE <<>>) \o
    <<"call:ensure_self_venv", "echo:Updated self-python installation">> \o
    (IF platform = "windows"
     THEN <<"echo:Note: You need to manually add to your PATH">>
     ELSE IF cmd.path = "without_shims"
     THEN <<"echo:The rye directory was not detected on PATH">>
     ELSE <<>>) \o
    <<"echo:For more information read", "echo:All done!">>

IsPrefix(a, b) == Len(a) <= Len(b) /\ SubSeq(b, 1, Len(a)) = a

\* C14: every run of perform_install() visits its steps in the order
\* Greeting, ConfirmOrSkip, PlaceBinary, WriteEnvFile, RegisterToolchain
\* (only with a toolchain path), BootstrapRuntime, ReportPathAdvice, Done:
\* what a run does is a prefix of the complete sequence, the run succeeds
\* exactly when it reaches the end of it, and 'All done!' comes only after
\* BootstrapRuntime succeeded.
C14_StepOrder ==
    InstallRan =>
        /\ IsPrefix(Steps(log), ExpectedSteps)
        /\ result \in {"Ok", "Ok(true)"} <=> Steps(log) = ExpectedSteps
        /\ InLog("echo:All done!") <=> result \in {"Ok", "Ok(true)"}
        /\ InLog("echo:All done!") =>
              InLog("echo:Updated self-python installation")

C14_Witness ==
    /\ InstallRan /\ cmd.mode = "Default" /\ platform = "unix"
    /\ cmd.toolchain # NoToolchain /\ cmd.path = "without_shims"
    /\ result = "Ok"
    /\ Steps(log) = ExpectedSteps /\ Len(Steps(log)) = 12

\* The last perform_install() got as far as RegisterToolchain.
ReachedRegister ==
    /\ InstallRan /\ InLog("echo:Installed binary")
    /\ cmd.fault # "write_env"

\* ... with a toolchain that is not cpython or not self-compatible.
ToolchainRejected ==
    /\ ReachedRegister
    /\ cmd.toolchain # NoToolchain
    /\ cmd.toolchain.name # "cpython" \/ ~cmd.toolchain.compatible

\* C15: perform_install() invokes the toolchain registration if and only
\* if a toolchain path was supplied; when the validation predicate rejects
\* the toolchain the install returns an error and ensure_self_venv is not
\* called in that run.
C15_RegistrationAndRejection ==
    InstallRan =>
        /\ InLog("echo:Registering toolchain") <=>
              (ReachedRegister /\ cmd.toolchain # NoToolchain)
        /\ ToolchainRejected =>
              /\ result = "Err"
              /\ ~InLog("echo:Registered toolchain")
              /\ ~InLog("call:ensure_self_venv")
              /\ fs.selfDir = pre.selfDir

C15_Witness ==
    /\ ToolchainRejected
    /\ cmd.toolchain.name = "cpython"
    /\ IsFile(fs, "rye") /\ ~pre.selfDir
    /\ result = "Err"

\* The last command was an uninstall() that was confirmed (or run with
\* --yes) and returned success.
UninstallSucceeded ==
    /\ cmd.op = "uninstall" /\ (cmd.yes \/ cmd.answer = "yes")
    /\ result = "Ok"

\* C16: uninstall() never deletes the env file: after a successful
\* uninstall of an existing application directory an env file that existed
\* still exists and is empty, one that did not exist was not created, and
\* the application directory still exists while shims/, self/, py/ and
\* pip-tools/ do not.
C16_EnvTruncatedNotDeleted ==
    (UninstallSucceeded /\ pre.appDir) =>
        /\ fs.appDir
        /\ pre.env.exists => fs.env = EnvFile(<<>>)
        /\ ~pre.env.exists => ~fs.env.exists
        /\ ~fs.shimsDir /\ ~fs.selfDir /\ ~fs.pyDir /\ ~fs.pipToolsDir

C16_Witness ==
    /\ UninstallSucceeded
    /\ pre.env.exists /\ pre.env.text # <<>>
    /\ pre.shimsDir /\ pre.selfDir /\ pre.pyDir /\ pre.pipToolsDir
    /\ fs.env = EnvFile(<<>>)

\* The last command was an update() in which every step before
\* update_exe_and_shims succeeded and no call fails.
UpdateReachesReplace ==
    /\ cmd.op = "update" /\ cmd.fault = "none"
    /\ ~cmd.git =>
          /\ ~DecodeFails(cmd.payload)
          /\ cmd.sidecar # NotFound =>
                check_checksum(cmd.payload, Trim(cmd.sidecar))

\* C17: when the shims directory does not exist, the application directory
\* itself being absent included, update_exe_and_shims skips the shim
\* synchronization, replaces the running executable and the update
\* returns success.
C17_NoShimsDirStillUpdates ==
    (UpdateReachesReplace /\ ~pre.shimsDir) =>
        /\ ~InLog("call:update_core_shims")
        /\ InLog("call:self_replace")
        /\ result = "Ok"

\* The positions in the log of the entry m.
Positions(m) == {i \in 1..Len(log) : log[i] = m}

\* C18: in every run of update() the executable's path is resolved before
\* any destructive action: the read in update() and the canonicalized read
\* in update_exe_and_shims both come before self_replace, nothing is
\* changed on disk without them, and no read comes after the replacement,
\* so update_core_shims and the final '--version' run use a path read
\* before it.
C18_ExePathReadFirst ==
    cmd.op = "update" =>
        /\ fs # pre => InLog("call:self_replace")
        /\ \A k \in Positions("call:self_replace") :
              /\ Cardinality({i \in Positions("call:current_exe") : i < k}) = 2
              /\ \A i \in Positions("call:current_exe") : i < k
        /\ \A n \in Positions("call:update_core_shims") \cup
                     Positions("call:--version") :
              \E k \in Positions("call:self_replace") : k < n

C18_Witness ==
    /\ cmd.op = "update" /\ result = "Ok"
    /\ InLog("call:update_core_shims") /\ InLog("call:--version")
    /\ ExeEntry(fs, cmd.loc) # ExeEntry(pre, cmd.loc)
    /\ IsFile(pre, "python") /\ fs.shims["python"] = ExeEntry(fs, cmd.loc)

\* The last perform_install() entered PlaceBinary while shims/rye was a
\* file.
PlaceBinaryOverInstalled ==
    /\ InstallRan /\ InLog("call:create_dir_all")
    /\ IsFile(pre, "rye")

\* C19: perform_install() never destroys an installation without replacing
\* it: if shims/rye was a file when PlaceBinary began, shims/rye is a file
\* holding a complete executable when perform_install() returns, with
\* success or with an error, also when the running executable is shims/rye.
C19_InstallKeepsBinary ==
    PlaceBinaryOverInstalled =>
        /\ IsFile(fs, "rye")
        /\ fs.shims["rye"].bytes.ok

\* C20: update() reports success ('Updated!', the '--version' run, Ok)
\* only if self_replace succeeded and, when the shims directory exists,
\* update_core_shims succeeded; and whenever update() returns an error the
\* running executable's bytes on disk are those from before the call.
C20_UpdateResultConsistent ==
    cmd.op = "update" =>
        /\ result = "Ok" =>
              /\ InLog("echo:Updated!") /\ InLog("call:--version")
              /\ InLog("call:self_replace")
              /\ pre.shimsDir => InLog("call:update_core_shims")
        /\ InLog("echo:Updated!") => InLog("call:self_replace")
        /\ result = "Err" =>
              ExeEntry(fs, cmd.loc) = ExeEntry(pre, cmd.loc)

====
